---- MODULE Spec2Model ----
(***************************************************************************)
(* Model of mdb.master.Master (src/mdb/master.py): the asyncio bus master   *)
(* that claims mastership of the MDB board, optionally resets the bus,     *)
(* brings up the bill validator and the coin acceptor, and fans lifecycle  *)
(* operations out to them over one lock-guarded channel.                   *)
(*                                                                         *)
(* One step of the model is what one asyncio task runs between two         *)
(* suspension points (an await that really suspends).  Time is counted in  *)
(* tenths of a second.                                                     *)
(***************************************************************************)
EXTENDS Integers, Sequences, FiniteSets, TLC

\* ---------------------------------------------------------------- bounds
MaxExch == 2        \* send / sendread calls issued besides those of initialize

\* ------------------------------------------------------------- constants
SETUP_TIME_SECONDS == 2     \* mdb.peripherals.SETUP_TIME_SECONDS, in tenths
SleepMargin == 1            \* the "+ 0.1" of the settle delay, in tenths

None == <<>>              \* Python's None, where a text is expected

\* ------------------------------------------------------------------ text
Ord(c) ==
    CASE c = "\n" -> 10
      [] c = ","  -> 44
      [] c = "1"  -> 49
      [] c = "E"  -> 69
      [] c = "M"  -> 77
      [] c = "P"  -> 80
      [] c = "R"  -> 82
      [] c = "S"  -> 83
      [] c = "T"  -> 84

\* usb_handler.to_ascii: the text as its ASCII bytes
to_ascii(s) == [i \in 1..Len(s) |-> Ord(s[i])]

M1      == <<"M", ",", "1", "\n">>
RRESET  == <<"R", ",", "R", "E", "S", "E", "T", "\n">>
POLL    == <<"P", "\n">>
MACK    == <<"m", ",", "A", "C", "K">>
MNAK    == <<"m", ",", "N", "A", "K">>
XNAK    == <<"x", ",", "N", "A", "K">>
PACK    == <<"p", ",", "A", "C", "K">>
TIMEOUT == <<"timeout">>

StartsWith(s, p) == Len(p) <= Len(s) /\ SubSeq(s, 1, Len(p)) = p

\* ----------------------------------------------------------------- tasks
Children == {"i1", "i2", "c1", "c2"}
Tasks    == {"init", "caller"} \cup Children
Parent(c) == IF c \in {"i1", "i2"} THEN "init" ELSE "caller"
Index(c)  == IF c \in {"i1", "c1"} THEN 1 ELSE 2
ChildOf(p, i) == IF p = "init" THEN (IF i = 1 THEN "i1" ELSE "i2")
                               ELSE (IF i = 1 THEN "c1" ELSE "c2")
ChildrenOf(p) == {ChildOf(p, 1), ChildOf(p, 2)}
\* registration order: bill validator first, coin acceptor second
Peripheral(c) == IF Index(c) = 1 THEN "bill_validator" ELSE "coin_acceptor"

VARIABLES
    initialized,    \* Master.initialized
    locked,         \* Master.lock: asyncio.Lock._locked
    waiters,        \* Master.lock: asyncio.Lock._waiters, in arrival order
    pc,             \* where each task is suspended
    req,            \* the adapter call each task is in
    res,            \* what the task's last send/sendread gave it
    sent,           \* the messages written to the channel, in order
    pending,        \* requests the device has received and not answered
    clock,          \* now
    wake,           \* the asyncio.sleep of initialize: when it began and ends
    bus_reset,      \* the bus_reset argument of initialize
    status,         \* the local `status` of initialize
    hsAnswer,       \* what the channel answered to M,1
    fut,            \* the outer future of each task's asyncio.gather
    cres,           \* how each peripheral operation ended
    skipArg,        \* the flag each peripheral's initialize was given
    callOp,         \* the API operation the caller is in
    nexch,          \* send / sendread calls issued to the master so far
    outcome         \* how initialize / the caller's last call ended

vars == <<initialized, locked, waiters, pc, req, res, sent, pending, clock, wake,
          bus_reset, status, hsAnswer, fut, cres, skipArg, callOp, nexch,
          outcome>>

NoSleep == [since |-> -1, until |-> -1]
NoReq  == [kind |-> "none", msg |-> <<>>, prefix |-> <<>>]
NoRes  == [err |-> "none", of |-> "none"]
NoFut  == [st |-> "none", val |-> <<>>]
NoOut  == [kind |-> "none", err |-> "none", val |-> <<>>]

Init ==
    /\ initialized = FALSE
    /\ locked = FALSE
    /\ waiters = <<>>
    /\ pc = [t \in Tasks |-> IF t = "init" THEN "new"
                             ELSE IF t = "caller" THEN "idle" ELSE "off"]
    /\ req = [t \in Tasks |-> NoReq]
    /\ res = [t \in Tasks |-> NoRes]
    /\ sent = <<>>
    /\ pending = <<>>
    /\ clock = 0
    /\ wake = NoSleep
    /\ bus_reset \in BOOLEAN
    /\ status = None
    /\ hsAnswer = <<>>
    /\ fut = [p \in {"init", "caller"} |-> NoFut]
    /\ cres = [c \in Children |-> "none"]
    /\ skipArg = [c \in {"i1", "i2"} |-> <<>>]
    /\ callOp = "none"
    /\ nexch = 0
    /\ outcome = [p \in {"init", "caller"} |-> NoOut]

\* ------------------------------------------------------------- the lock
\* (mutant) the lock never makes anybody wait
LockAcquireNoWait(lk, ws, t) == [locked |-> TRUE, waiters |-> ws, got |-> TRUE]

\* asyncio.Lock.acquire: taken at once when free and nobody is queued,
\* otherwise the task queues behind the earlier waiters.
LockAcquire(lk, ws, t) ==
    IF ~lk /\ ws = <<>>
    THEN [locked |-> TRUE, waiters |-> ws, got |-> TRUE]
    ELSE [locked |-> lk, waiters |-> Append(ws, t), got |-> FALSE]

\* asyncio.Lock.release: the lock is free; the first waiter's future is set
\* (it stays queued until it resumes).
LockRelease(lk) == FALSE

\* (mutant) the lock is released only when the body ended without failure
LockExitOnSuccess(lk, err) == IF err = "none" THEN LockRelease(lk) ELSE lk

\* the exit of "async with self.lock": the lock is released whether the body
\* returned or raised (err is the body's failure, "none" if it returned)
LockExit(lk, err) == LockRelease(lk)

\* (mutant) the most recent waiter is woken
LockResumeLast(t) ==
    /\ pc[t] = "wait"
    /\ waiters # <<>> /\ waiters[Len(waiters)] = t
    /\ ~locked
    /\ locked' = TRUE
    /\ waiters' = SubSeq(waiters, 1, Len(waiters) - 1)
    /\ pc' = [pc EXCEPT ![t] = "tx"]
    /\ UNCHANGED <<initialized, req, res, sent, pending, clock, wake, bus_reset,
                   status, hsAnswer, fut, cres, skipArg, callOp, nexch,
                   outcome>>

\* a queued task resumes: it is the first waiter and the lock was released
LockResume(t) ==
    /\ pc[t] = "wait"
    /\ waiters # <<>> /\ Head(waiters) = t
    /\ ~locked
    /\ locked' = TRUE
    /\ waiters' = Tail(waiters)
    /\ pc' = [pc EXCEPT ![t] = "tx"]
    /\ UNCHANGED <<initialized, req, res, sent, pending, clock, wake, bus_reset,
                   status, hsAnswer, fut, cres, skipArg, callOp, nexch,
                   outcome>>

\* ---------------------------------------------------- the channel adapter
\* USBHandler.sendread(bytes, prefix): the response text, or a failure on a
\* timeout or on a response that does not begin with the expected prefix
AdapterSendread(resp, prefix) ==
    IF resp = TIMEOUT THEN [err |-> "ChannelError", val |-> <<>>]
    ELSE IF ~StartsWith(resp, prefix)
         THEN [err |-> "PrefixMismatchError", val |-> <<>>]
         ELSE [err |-> "none", val |-> resp]

\* USBHandler.send(bytes): nothing, or a failure of the write
AdapterSend(ok) ==
    [err |-> IF ok THEN "none" ELSE "ChannelError", val |-> <<>>]

\* what the device may answer to a request
Responses(msg) ==
    IF msg = to_ascii(M1) THEN {MACK, MNAK, XNAK, TIMEOUT}
                          ELSE {PACK, XNAK, TIMEOUT}

\* (mutant) the adapter is called a second time with the same bytes
TransmitTwice(t) ==
    /\ pc[t] = "tx"
    /\ sent' = Append(Append(sent, req[t].msg), req[t].msg)
    /\ pending' = IF req[t].kind = "sendread" THEN Append(pending, t) ELSE pending
    /\ pc' = [pc EXCEPT ![t] = "io"]
    /\ UNCHANGED <<initialized, locked, waiters, req, res, clock, wake, bus_reset,
                   status, hsAnswer, fut, cres, skipArg, callOp, nexch,
                   outcome>>

\* the adapter call of a task that holds the lock puts its bytes on the wire
Transmit(t) ==
    /\ pc[t] = "tx"
    /\ sent' = Append(sent, req[t].msg)
    /\ pending' = IF req[t].kind = "sendread" THEN Append(pending, t) ELSE pending
    /\ pc' = [pc EXCEPT ![t] = "io"]
    /\ UNCHANGED <<initialized, locked, waiters, req, res, clock, wake, bus_reset,
                   status, hsAnswer, fut, cres, skipArg, callOp, nexch,
                   outcome>>

\* (mutant) the end of a gather cancels the coroutines still running
CollectedCancel(p) ==
    [t \in Tasks |-> IF t \in ChildrenOf(p) THEN "off" ELSE pc[t]]

\* ------------------------------------------------------- asyncio.gather
\* gather(op(bill_validator), op(coin_acceptor)) called by task p: both
\* operations become tasks at once and p awaits the outer future
GatherPc(p) ==
    [t \in Tasks |-> IF t = p THEN "gather"
                     ELSE IF t \in ChildrenOf(p) THEN "ready" ELSE pc[t]]
\* the gather of task p has been awaited: its finished tasks are gone
Collected(p) ==
    [t \in Tasks |-> IF t \in ChildrenOf(p) /\ pc[t] = "done" THEN "off" ELSE pc[t]]
CollectedCres(p) ==
    [c \in Children |-> IF c \in ChildrenOf(p) /\ pc[c] = "done" THEN "none" ELSE cres[c]]
GatherFut(p)   == [fut EXCEPT ![p] = [st |-> "pending", val |-> <<>>]]
GatherCres(p)  == [c \in Children |-> IF c \in ChildrenOf(p) THEN "none" ELSE cres[c]]

\* what a finished peripheral operation contributes to the outcome list
ChildValue(c, r) == <<Peripheral(c), r>>

\* (mutant) a gather that waits for every child before it reports a failure
DoneCallbackWaitAll(outer, rs, c, return_exceptions) ==
    LET p == Parent(c)
        failed == {d \in ChildrenOf(p) : rs[d] = "err"}
    IN
    IF outer.st # "pending" THEN outer
    ELSE IF \E d \in ChildrenOf(p) : rs[d] = "none" THEN outer
    ELSE IF ~return_exceptions /\ failed # {}
         THEN [st |-> "exception",
               val |-> ChildValue(CHOOSE d \in failed : TRUE, "err")]
         ELSE [st |-> "result",
               val |-> <<ChildValue(ChildOf(p, 1), rs[ChildOf(p, 1)]),
                         ChildValue(ChildOf(p, 2), rs[ChildOf(p, 2)])>>]

\* gather's _done_callback for child c, whose outcomes are now rs: the first
\* failure ends an outer future without return_exceptions at once; otherwise
\* the outer future ends when every child has, with the outcomes in
\* argument order
DoneCallback(outer, rs, c, return_exceptions) ==
    LET p == Parent(c) IN
    IF outer.st # "pending" THEN outer
    ELSE IF ~return_exceptions /\ rs[c] = "err"
         THEN [st |-> "exception", val |-> ChildValue(c, "err")]
    ELSE IF \A d \in ChildrenOf(p) : rs[d] # "none"
         THEN [st |-> "result",
               val |-> <<ChildValue(ChildOf(p, 1), rs[ChildOf(p, 1)]),
                         ChildValue(ChildOf(p, 2), rs[ChildOf(p, 2)])>>]
         ELSE outer

\* ------------------------------------------------------ Master.initialize
\* (mutants) an acknowledgement check that looks at the prefix only, and one
\* that accepts every answer
AckOkPrefix(st) == StartsWith(st, <<"m">>)
AckOkAlways(st) == TRUE

\* line 33: the acknowledgement comparison
AckOk(st) == st = MACK

\* (mutant) the flag is never set
EstablishedNever == FALSE

\* line 35: the session flag once the acknowledgement is accepted
Established == TRUE

\* (mutant) the flag is handed over without the negation
SkipOwnSetupDelaySame(br) == br

\* lines 42-43: the flag handed to each peripheral's initialize
SkipOwnSetupDelay(br) == ~br

\* (mutant) the settle delay without its margin
SettleDelayShort == SETUP_TIME_SECONDS

\* line 40: the settle delay
SettleDelay == SETUP_TIME_SECONDS + SleepMargin

\* (mutant) the assertions are not checked
PreconditionOff(flag) == TRUE

\* the precondition of send, sendread, enable, disable, status and run
Precondition(flag) == flag

\* lines 25-32, up to the first suspension: take the lock for M,1
initialize ==
    /\ pc["init"] = "new"
    /\ LET a == LockAcquire(locked, waiters, "init") IN
        /\ locked' = a.locked
        /\ waiters' = a.waiters
        /\ pc' = [pc EXCEPT !["init"] = IF a.got THEN "tx" ELSE "wait"]
    /\ req' = [req EXCEPT !["init"] =
                 [kind |-> "sendread", msg |-> to_ascii(M1), prefix |-> <<"m">>]]
    /\ status' = None
    /\ UNCHANGED <<initialized, res, sent, pending, clock, wake, bus_reset,
                   hsAnswer, fut, cres, skipArg, callOp, nexch, outcome>>

InitRaise(e) == [kind |-> "raise", err |-> e, val |-> <<>>]

\* lines 32-43, from the answer to M,1 to the next suspension: the lock is
\* released, the answer compared, the flag set, and then either R,RESET is
\* sent (send checks the flag and takes the lock again) or the peripherals
\* are brought up
HandshakeComplete ==
    /\ pc["init"] = "io"
    /\ req["init"].kind = "sendread"
    /\ \E resp \in Responses(req["init"].msg) :
        LET r   == AdapterSendread(resp, req["init"].prefix)
            st  == IF r.err = "none" THEN r.val ELSE status
            rel == LockExit(locked, r.err)
            a   == LockAcquire(rel, waiters, "init")
        IN
        /\ hsAnswer' = resp
        /\ res' = [res EXCEPT !["init"] = [err |-> r.err, of |-> Head(pending)]]
        /\ pending' = Tail(pending)
        /\ status' = st
        /\ req' = [req EXCEPT !["init"] =
                     IF r.err = "none" /\ AckOk(st) /\ bus_reset
                        /\ Precondition(Established)
                     THEN [kind |-> "send", msg |-> to_ascii(RRESET), prefix |-> <<>>]
                     ELSE NoReq]
        /\ IF r.err # "none"
           THEN /\ outcome' = [outcome EXCEPT !["init"] = InitRaise(r.err)]
                /\ pc' = [pc EXCEPT !["init"] = "raised"]
                /\ locked' = rel
                /\ UNCHANGED <<initialized, waiters, fut, cres, skipArg, nexch>>
           ELSE IF ~AckOk(st)
           THEN /\ outcome' = [outcome EXCEPT !["init"] = InitRaise("RuntimeError")]
                /\ pc' = [pc EXCEPT !["init"] = "raised"]
                /\ locked' = rel
                /\ UNCHANGED <<initialized, waiters, fut, cres, skipArg, nexch>>
           ELSE IF bus_reset /\ ~Precondition(Established)
           THEN /\ initialized' = Established
                /\ outcome' = [outcome EXCEPT !["init"] = InitRaise("AssertionError")]
                /\ pc' = [pc EXCEPT !["init"] = "raised"]
                /\ locked' = rel
                /\ UNCHANGED <<waiters, fut, cres, skipArg, nexch>>
           ELSE IF bus_reset
           THEN /\ initialized' = Established
                /\ locked' = a.locked
                /\ waiters' = a.waiters
                /\ pc' = [pc EXCEPT !["init"] = IF a.got THEN "tx" ELSE "wait"]
                /\ UNCHANGED <<outcome, fut, cres, skipArg, nexch>>
           ELSE /\ initialized' = Established
                /\ locked' = rel
                /\ pc' = GatherPc("init")
                /\ fut' = GatherFut("init")
                /\ cres' = GatherCres("init")
                /\ skipArg' = [c \in {"i1", "i2"} |-> <<SkipOwnSetupDelay(bus_reset)>>]
                /\ UNCHANGED <<outcome, waiters, nexch>>
    /\ UNCHANGED <<sent, clock, wake, bus_reset, callOp>>

\* lines 38-40: R,RESET is written, the lock released, and the sleep starts;
\* a failed write leaves initialize
ResetComplete ==
    /\ pc["init"] = "io"
    /\ req["init"].kind = "send"
    /\ \E ok \in BOOLEAN :
        LET r == AdapterSend(ok) IN
        /\ locked' = LockExit(locked, r.err)
        /\ req' = [req EXCEPT !["init"] = NoReq]
        /\ res' = [res EXCEPT !["init"] = [err |-> r.err, of |-> "none"]]
        /\ IF r.err # "none"
           THEN /\ outcome' = [outcome EXCEPT !["init"] = InitRaise(r.err)]
                /\ pc' = [pc EXCEPT !["init"] = "raised"]
                /\ wake' = wake
           ELSE /\ pc' = [pc EXCEPT !["init"] = "sleep"]
                /\ wake' = [since |-> clock, until |-> clock + SettleDelay]
                /\ outcome' = outcome
    /\ UNCHANGED <<initialized, waiters, sent, pending, clock, bus_reset,
                   status, hsAnswer, fut, cres, skipArg, callOp, nexch>>

\* lines 41-43: the sleep is over, both peripherals' initialize are gathered
InitializePeripherals ==
    /\ pc["init"] = "sleep"
    /\ clock >= wake.until
    /\ pc' = GatherPc("init")
    /\ fut' = GatherFut("init")
    /\ cres' = GatherCres("init")
    /\ skipArg' = [c \in {"i1", "i2"} |-> <<SkipOwnSetupDelay(bus_reset)>>]
    /\ UNCHANGED <<initialized, locked, waiters, req, res, sent, pending, clock,
                   wake, bus_reset, status, hsAnswer, callOp, outcome, nexch>>

\* line 42-43: the gather of initialize is over: return, or raise the first
\* failure
InitializeEnd ==
    /\ pc["init"] = "gather"
    /\ fut["init"].st \in {"result", "exception"}
    /\ IF fut["init"].st = "exception"
       THEN /\ pc' = [Collected("init") EXCEPT !["init"] = "raised"]
            /\ outcome' = [outcome EXCEPT !["init"] =
                  [kind |-> "raise", err |-> "PeripheralError",
                   val |-> fut["init"].val]]
       ELSE /\ pc' = [Collected("init") EXCEPT !["init"] = "returned"]
            /\ outcome' = [outcome EXCEPT !["init"] =
                  [kind |-> "return", err |-> "none", val |-> <<>>]]
    /\ fut' = [fut EXCEPT !["init"] = NoFut]
    /\ cres' = CollectedCres("init")
    /\ UNCHANGED <<initialized, locked, waiters, req, res, sent, pending, clock,
                   wake, bus_reset, status, hsAnswer, skipArg, callOp, nexch>>

\* time passes; the clock is read only by the sleep of initialize, so it
\* is counted while that sleep lasts
Tick ==
    /\ pc["init"] = "sleep"
    /\ clock < wake.until
    /\ clock' = clock + 1
    /\ UNCHANGED <<initialized, locked, waiters, pc, req, res, sent, pending, wake,
                   bus_reset, status, hsAnswer, fut, cres, skipArg, callOp,
                   nexch, outcome>>

\* ------------------------------------------- Master.send / Master.sendread
\* a task may issue a call: the caller between two calls, a peripheral
\* operation between two exchanges
CanCall(t) ==
    /\ nexch < MaxExch
    /\ pc[t] = IF t = "caller" THEN "idle" ELSE "ready"

Fault == [kind |-> "raise", err |-> "AssertionError", val |-> <<>>]

\* lines 46-47 (send) and 51-52 (sendread): the assertion, then the lock
Call(t, r) ==
    /\ CanCall(t)
    /\ nexch' = IF Precondition(initialized) THEN nexch + 1 ELSE nexch
    /\ IF ~Precondition(initialized)
       THEN /\ IF t = "caller"
               THEN outcome' = [outcome EXCEPT ![t] = Fault] /\ res' = res
               ELSE res' = [res EXCEPT ![t] = [err |-> "AssertionError",
                                               of |-> "none"]]
                    /\ outcome' = outcome
            /\ UNCHANGED <<locked, waiters, pc, req>>
       ELSE LET a == LockAcquire(locked, waiters, t) IN
            /\ locked' = a.locked
            /\ waiters' = a.waiters
            /\ pc' = [pc EXCEPT ![t] = IF a.got THEN "tx" ELSE "wait"]
            /\ req' = [req EXCEPT ![t] = r]
            /\ res' = [res EXCEPT ![t] = NoRes]
            /\ outcome' = IF t = "caller" THEN [outcome EXCEPT ![t] = NoOut]
                                         ELSE outcome
    /\ UNCHANGED <<initialized, sent, pending, clock, wake, bus_reset, status,
                   hsAnswer, fut, cres, skipArg, callOp>>

send(t) ==
    Call(t, [kind |-> "send", msg |-> to_ascii(POLL), prefix |-> <<>>])

sendread(t) ==
    Call(t, [kind |-> "sendread", msg |-> to_ascii(POLL), prefix |-> <<"p">>])

\* what the adapter call of task t may end with
AdapterOutcomes(t) ==
    IF req[t].kind = "send"
    THEN {AdapterSend(ok) : ok \in BOOLEAN}
    ELSE {AdapterSendread(resp, req[t].prefix) : resp \in Responses(req[t].msg)}

\* lines 47-48 and 52-53: the adapter call ends, the lock is released, and
\* the result or the failure goes to whoever called send / sendread
ExchangeComplete(t) ==
    /\ t # "init"
    /\ pc[t] = "io"
    /\ \E r \in AdapterOutcomes(t) :
        /\ res' = [res EXCEPT ![t] =
              [err |-> r.err,
               of |-> IF req[t].kind = "sendread" THEN Head(pending) ELSE "none"]]
        /\ outcome' = IF t = "caller"
                      THEN [outcome EXCEPT ![t] =
                             [kind |-> IF r.err = "none" THEN "return" ELSE "raise",
                              err |-> r.err, val |-> r.val]]
                      ELSE outcome
        /\ locked' = LockExit(locked, r.err)
    /\ pending' = IF req[t].kind = "sendread" THEN Tail(pending) ELSE pending
    /\ req' = [req EXCEPT ![t] = NoReq]
    /\ pc' = [pc EXCEPT ![t] = IF t = "caller" THEN "idle" ELSE "ready"]
    /\ UNCHANGED <<initialized, waiters, sent, clock, wake, bus_reset, status,
                   hsAnswer, fut, cres, skipArg, callOp, nexch>>

\* --------------------------- Master.enable / disable / status / run
\* (mutant) every fan-out collects failures
ReturnExceptionsAlways(op) == TRUE

\* (mutant) no fan-out collects failures
ReturnExceptionsNever(op) == FALSE

\* lines 60, 67, 76: return_exceptions=True; line 81-82: the default
ReturnExceptions(op) == op \in {"enable", "disable", "status"}

\* the assertion, then the gather of the operation on both peripherals
Fanout(op) ==
    /\ pc["caller"] = "idle"
    /\ \A c \in ChildrenOf("caller") : pc[c] \in {"off", "done"}
    /\ IF ~Precondition(initialized)
       THEN /\ outcome' = [outcome EXCEPT !["caller"] = Fault]
            /\ UNCHANGED <<pc, fut, cres, callOp>>
       ELSE /\ callOp' = op
            /\ pc' = GatherPc("caller")
            /\ fut' = GatherFut("caller")
            /\ cres' = GatherCres("caller")
            /\ outcome' = [outcome EXCEPT !["caller"] = NoOut]
    /\ res' = [res EXCEPT !["caller"] = NoRes]
    /\ UNCHANGED <<initialized, locked, waiters, req, sent, pending, clock,
                   wake, bus_reset, status, hsAnswer, skipArg, nexch>>

enable  == Fanout("enable")
disable == Fanout("disable")
status_ == Fanout("status")
run     == Fanout("run")

\* the gather of the caller's operation is over: the outcome list is
\* returned, or the first failure raised
FanoutEnd ==
    /\ pc["caller"] = "gather"
    /\ fut["caller"].st \in {"result", "exception"}
    /\ pc' = [Collected("caller") EXCEPT !["caller"] = "idle"]
    /\ outcome' = [outcome EXCEPT !["caller"] =
          IF fut["caller"].st = "exception"
          THEN [kind |-> "raise", err |-> "PeripheralError",
                val |-> fut["caller"].val]
          ELSE [kind |-> "return", err |-> "none", val |-> fut["caller"].val]]
    /\ fut' = [fut EXCEPT !["caller"] = NoFut]
    /\ cres' = CollectedCres("caller")
    /\ callOp' = "none"
    /\ UNCHANGED <<initialized, locked, waiters, req, res, sent, pending, clock,
                   wake, bus_reset, status, hsAnswer, skipArg, nexch>>

\* ------------------------------------------------ the peripheral drivers
\* whether the gather that runs child c collects failures
CollectsFailures(c) ==
    IF Parent(c) = "init" THEN FALSE ELSE ReturnExceptions(callOp)

\* a peripheral operation ends, with a value (r = "ok") or a failure
\* (r = "err"), and gather's callback sees it; once the gather has been
\* awaited nobody holds the finished task
ChildEnd(c, r) ==
    /\ pc[c] = "ready"
    /\ res' = [res EXCEPT ![c] = NoRes]
    /\ IF fut[Parent(c)].st = "none"
       THEN /\ pc' = [pc EXCEPT ![c] = "off"]
            /\ UNCHANGED <<cres, fut>>
       ELSE /\ pc' = [pc EXCEPT ![c] = "done"]
            /\ cres' = [cres EXCEPT ![c] = r]
            /\ fut' = [fut EXCEPT ![Parent(c)] =
                         DoneCallback(@, cres', c, CollectsFailures(c))]
    /\ UNCHANGED <<initialized, locked, waiters, req, sent, pending, clock,
                   wake, bus_reset, status, hsAnswer, skipArg, callOp,
                   nexch, outcome>>

ChildReturn(c) == ChildEnd(c, "ok")
ChildRaise(c)  == ChildEnd(c, "err")

\* ------------------------------------------------------------ the system
Next ==
    \/ initialize
    \/ HandshakeComplete
    \/ ResetComplete
    \/ InitializePeripherals
    \/ InitializeEnd
    \/ \E t \in Tasks : LockResume(t)
    \/ \E t \in Tasks : Transmit(t)
    \/ \E t \in Tasks \ {"init"} : send(t)
    \/ \E t \in Tasks \ {"init"} : sendread(t)
    \/ \E t \in Tasks \ {"init"} : ExchangeComplete(t)
    \/ enable
    \/ disable
    \/ status_
    \/ run
    \/ FanoutEnd
    \/ \E c \in Children : ChildReturn(c)
    \/ \E c \in Children : ChildRaise(c)
    \/ Tick

Spec == Init /\ [][Next]_vars

\* =============================================================== claims
Range(sq) == {sq[i] : i \in 1..Len(sq)}
Count(m, sq) == Cardinality({i \in 1..Len(sq) : sq[i] = m})
Running == {"ready", "wait", "tx", "io"}
InitOver == pc["init"] \in {"returned", "raised"}
\* both peripherals' initialize have been invoked
Dispatched == skipArg["i1"] # <<>> /\ skipArg["i2"] # <<>>
\* the channel gave a response to M,1, and it is not m,ACK
Refused == hsAnswer \notin {<<>>, MACK, TIMEOUT}
\* the sleep after R,RESET is running and has not reached its end
InSettleWindow == pc["init"] = "sleep" /\ clock < wake.until

\* C1: at most one task holds the channel (between taking the lock and the
\* end of its adapter call), the device never has two requests to answer,
\* and every response a sendread got answers the request of that very call.
C1_Serialized ==
    /\ Cardinality({t \in Tasks : pc[t] \in {"tx", "io"}}) <= 1
    /\ Len(pending) <= 1
    /\ \A t \in Tasks :
         /\ (pc[t] = "io" /\ req[t].kind = "sendread") => pending = <<t>>
         /\ res[t].of \in {"none", t}

\* two sendread calls are issued concurrently: one is in flight, the other waits
C1_Witness ==
    \E t, u \in Tasks :
        /\ t # u
        /\ pc[t] = "io" /\ req[t].kind = "sendread"
        /\ pc[u] = "wait" /\ req[u].kind = "sendread"

\* C2 (as stated): once initialize is over, with no peripheral failure, it
\* has returned with the flag set if the channel answered m,ACK, and it has
\* raised with the flag unset otherwise.
C2_Original ==
    (InitOver /\ outcome["init"].err # "PeripheralError") =>
        IF hsAnswer = MACK
        THEN outcome["init"].kind = "return" /\ initialized
        ELSE outcome["init"].kind = "raise" /\ ~initialized

\* C2 (amended): as C2, provided the write of R,RESET (if any) did not fail;
\* when it failed, initialize has raised that channel error, the flag is set
\* and no peripheral was initialized.
C2_Amended ==
    (InitOver /\ outcome["init"].err # "PeripheralError") =>
        IF hsAnswer = MACK
        THEN /\ initialized
             /\ IF res["init"].err = "none"
                THEN outcome["init"].kind = "return"
                ELSE /\ bus_reset
                     /\ outcome["init"].kind = "raise"
                     /\ outcome["init"].err = "ChannelError"
                     /\ ~Dispatched
        ELSE outcome["init"].kind = "raise" /\ ~initialized

\* initialize with a bus reset has returned after m,ACK, the flag is set
C2_Witness ==
    /\ pc["init"] = "returned" /\ bus_reset
    /\ hsAnswer = MACK /\ initialized

C4_NoFurtherStep ==
    (hsAnswer # <<>> /\ hsAnswer # MACK) =>
        /\ pc["init"] = "raised"
        /\ to_ascii(RRESET) \notin Range(sent)
        /\ wake = NoSleep
        /\ \A c \in ChildrenOf("init") : pc[c] = "off" /\ skipArg[c] = <<>>

\* the channel answered m,NAK to a bus-resetting initialize
C4_Witness ==
    /\ hsAnswer = MNAK /\ bus_reset
    /\ pc["init"] = "raised"

\* C5: while the flag is unset, the caller's calls have only ever ended in
\* the assertion failure: the caller is in no call, holds and awaits no
\* lock, asked the adapter nothing, no peripheral operation exists, and the
\* channel has seen nothing but the M,1 of initialize.
C5_PreconditionFault ==
    ~initialized =>
        /\ pc["caller"] = "idle"
        /\ outcome["caller"] \in {NoOut, Fault}
        /\ req["caller"] = NoReq
        /\ \A i \in 1..Len(waiters) : waiters[i] = "init"
        /\ locked => pc["init"] \in {"tx", "io"}
        /\ \A c \in Children : pc[c] = "off"
        /\ \A i \in 1..Len(sent) : sent[i] = to_ascii(M1)

\* a call made after a failed handshake ended in the assertion failure
C5_Witness ==
    /\ ~initialized /\ pc["init"] = "raised"
    /\ outcome["caller"] = Fault

\* C6: in a bus-resetting initialize whose handshake succeeded, R,RESET is
\* written at most once, right after M,1, and exactly once when the sleep
\* has begun; the peripherals' initialize are invoked only when
\* SETUP_TIME_SECONDS + 0.1 s have passed since the end of that write.
C6_ResetThenSettle ==
    (bus_reset /\ hsAnswer = MACK) =>
        /\ Count(to_ascii(RRESET), sent) <= 1
        /\ (pc["init"] \in {"io", "sleep", "gather", "returned"} \/ Dispatched) =>
              /\ Count(to_ascii(RRESET), sent) = 1
              /\ sent[1] = to_ascii(M1) /\ sent[2] = to_ascii(RRESET)
        /\ Dispatched =>
              /\ wake.since >= 0
              /\ clock >= wake.since + SETUP_TIME_SECONDS + SleepMargin

\* the peripherals' initialize have been invoked after a bus reset
C6_Witness ==
    /\ bus_reset /\ Dispatched
    /\ pc["i1"] = "ready" /\ pc["i2"] = "ready"

\* C7 (as stated): while the settle delay runs, the channel has seen
\* nothing after R,RESET and no task is inside an adapter call.
C7_QuietWindow ==
    InSettleWindow =>
        /\ sent = <<to_ascii(M1), to_ascii(RRESET)>>
        /\ \A t \in Tasks : pc[t] # "io"

\* C8: R,RESET is written and the sleep taken only in a bus-resetting
\* initialize; every peripheral's initialize is given the negation of
\* bus_reset, and when it is invoked R,RESET has been written if and only
\* if bus_reset is true.
C8_SkipFlag ==
    /\ ~bus_reset =>
          /\ to_ascii(RRESET) \notin Range(sent)
          /\ wake = NoSleep /\ pc["init"] # "sleep"
    /\ \A c \in ChildrenOf("init") :
          skipArg[c] # <<>> =>
              /\ skipArg[c] = <<~bus_reset>>
              /\ bus_reset <=> to_ascii(RRESET) \in Range(sent)
              /\ bus_reset <=> wake # NoSleep

\* without a bus reset both peripherals were told to skip their own delay
C8_Witness ==
    /\ ~bus_reset
    /\ skipArg["i1"] = <<TRUE>> /\ skipArg["i2"] = <<TRUE>>
    /\ sent = <<to_ascii(M1)>>

\* C9: when enable, disable or status ends, it returns (it never raises),
\* both peripheral operations have run to their end, and the list holds the
\* bill validator's outcome first and the coin acceptor's second, each the
\* failure if that operation failed and its value otherwise.
C9_Outcomes ==
    [][(pc["caller"] = "gather" /\ pc'["caller"] # "gather"
        /\ callOp \in {"enable", "disable", "status"}) =>
            /\ outcome'["caller"].kind = "return"
            /\ pc["c1"] = "done" /\ pc["c2"] = "done"
            /\ outcome'["caller"].val =
                 <<<<"bill_validator", cres["c1"]>>, <<"coin_acceptor", cres["c2"]>>>>
      ]_vars

\* a fan-out returned the bill validator's failure and the coin acceptor's value
C9_Witness ==
    /\ outcome["caller"].kind = "return"
    /\ outcome["caller"].val =
         <<<<"bill_validator", "err">>, <<"coin_acceptor", "ok">>>>

\* C10 (as stated): when initialize has raised a peripheral's failure, no
\* peripheral's initialize is still running.
C10_Original ==
    (pc["init"] = "raised" /\ outcome["init"].err = "PeripheralError") =>
        \A c \in ChildrenOf("init") : pc[c] \notin Running

\* C10 (amended): both peripherals' initialize are started together, and as
\* soon as one of them has raised, the gather of initialize has failed with
\* that failure, whether or not the other one has ended; initialize raises
\* a failure one of them raised.
C10_Amended ==
    /\ (skipArg["i1"] = <<>>) <=> (skipArg["i2"] = <<>>)
    /\ (pc["i1"] = "off" /\ pc["init"] = "gather") <=>
       (pc["i2"] = "off" /\ pc["init"] = "gather")
    /\ (pc["init"] = "gather" /\ \E c \in ChildrenOf("init") : cres[c] = "err") =>
          /\ fut["init"].st = "exception"
          /\ \E c \in ChildrenOf("init") :
                cres[c] = "err" /\ fut["init"].val = ChildValue(c, "err")
    /\ (pc["init"] = "raised" /\ outcome["init"].err = "PeripheralError") =>
          \E c \in ChildrenOf("init") : outcome["init"].val = ChildValue(c, "err")

\* initialize has raised a peripheral's failure while the other peripheral's
\* initialize is still running
C10_Witness ==
    /\ pc["init"] = "raised" /\ outcome["init"].err = "PeripheralError"
    /\ \E c \in ChildrenOf("init") : pc[c] \in Running

\* C11: while run is awaited both peripherals' run exist; as soon as one of
\* them has failed the gather has failed with that failure, and while none
\* has failed and one still runs the gather is pending; when run ends by a
\* failure it raises that failure and returns no outcome list, and it
\* returns only when both have ended without failure.
C11_InRun == callOp = "run" /\ pc["caller"] = "gather"
C11_Run ==
    /\ [](C11_InRun =>
            /\ \A c \in ChildrenOf("caller") : pc[c] # "off"
            /\ (\E c \in ChildrenOf("caller") : cres[c] = "err") =>
                  /\ fut["caller"].st = "exception"
                  /\ \E c \in ChildrenOf("caller") :
                        cres[c] = "err" /\ fut["caller"].val = ChildValue(c, "err")
            /\ ((\A c \in ChildrenOf("caller") : cres[c] # "err")
                /\ (\E c \in ChildrenOf("caller") : pc[c] \in Running)) =>
                  fut["caller"].st = "pending")
    /\ [][(C11_InRun /\ pc'["caller"] # "gather") =>
            IF \E c \in ChildrenOf("caller") : cres[c] = "err"
            THEN /\ outcome'["caller"].kind = "raise"
                 /\ \E c \in ChildrenOf("caller") :
                       cres[c] = "err"
                       /\ outcome'["caller"].val = ChildValue(c, "err")
            ELSE /\ outcome'["caller"].kind = "return"
                 /\ \A c \in ChildrenOf("caller") : pc[c] = "done" /\ cres[c] = "ok"
         ]_vars

\* run has raised the coin acceptor's failure
C11_Witness ==
    /\ outcome["caller"].kind = "raise"
    /\ outcome["caller"].err = "PeripheralError"
    /\ outcome["caller"].val = <<"coin_acceptor", "err">>

\* C12: the flag is set only after the channel answered m,ACK, only by the
\* step of initialize that got that answer, and no step unsets it.
C12_Monotonic ==
    /\ [](initialized => (hsAnswer = MACK /\ status = MACK))
    /\ [][/\ initialized => initialized'
          /\ (~initialized /\ initialized') =>
                (pc["init"] = "io" /\ req["init"].kind = "sendread"
                 /\ hsAnswer' = MACK)
         ]_vars

\* the flag is set although a send of the caller has failed
C12_Witness ==
    /\ initialized
    /\ outcome["caller"].kind = "raise"
    /\ outcome["caller"].err = "ChannelError"

\* C13: when the adapter call of a send or sendread ends, the lock is free
\* and the flag still set, the caller of send / sendread gets the adapter's
\* failure exactly when the adapter failed; a failed R,RESET likewise leaves
\* the lock free and the flag set.
C13_FailurePropagates ==
    [][/\ \A t \in Tasks \ {"init"} :
            (pc[t] = "io" /\ pc'[t] # "io") =>
                /\ ~locked' /\ initialized'
                /\ pc'[t] = IF t = "caller" THEN "idle" ELSE "ready"
                /\ res'[t].err \in {"none", "ChannelError", "PrefixMismatchError"}
                /\ (req[t].kind = "send") => res'[t].err # "PrefixMismatchError"
                /\ (t = "caller") =>
                      /\ outcome'[t].err = res'[t].err
                      /\ outcome'[t].kind =
                           IF res'[t].err = "none" THEN "return" ELSE "raise"
       /\ (pc["init"] = "io" /\ req["init"].kind = "send" /\ pc'["init"] = "raised") =>
                /\ ~locked' /\ initialized'
                /\ outcome'["init"].err = "ChannelError"
      ]_vars

\* an exchange of a peripheral operation has failed, the operation goes on,
\* and the caller's later exchange holds the channel
C13_Witness ==
    \E c \in Children :
        /\ pc[c] = "ready" /\ res[c].err \in {"ChannelError", "PrefixMismatchError"}
        /\ pc["caller"] = "io" /\ initialized

\* C14: an enable / disable / status / run of a peripheral exists only when
\* initialize is not in ClaimingMastership, ResettingBus or
\* InitializingPeripherals.
C14_OnlyWhenReady ==
    (\E c \in ChildrenOf("caller") : pc[c] # "off") =>
        pc["init"] \notin {"wait", "tx", "io", "sleep", "gather"}

\* the tasks between the acquisition of the lock and the end of their
\* adapter call
Holders == {t \in Tasks : pc[t] \in {"tx", "io"}}

\* C15: the lock is taken exactly when one task is inside an exchange; it
\* is not taken by initialize during its sleep, nor by a peripheral
\* operation between two of its exchanges.
C15_HeldWhileInFlight ==
    /\ locked <=> Holders # {}
    /\ Cardinality(Holders) <= 1
    /\ (locked /\ pc["init"] = "sleep") => Holders \subseteq Tasks \ {"init"}
    /\ \A c \in Children :
          (locked /\ pc[c] = "ready") => Holders \subseteq Tasks \ {c}

\* one peripheral operation has ended an exchange and goes on, while its
\* sibling of the same fan-out is inside an exchange
C15_Witness ==
    \E a, b \in Children :
        /\ a # b /\ Parent(a) = Parent(b)
        /\ pc[a] = "ready" /\ res[a].of = a
        /\ pc[b] = "io" /\ locked

\* the state of the session as initialize goes through it
MasterState ==
    CASE pc["init"] = "new" -> "Uninitialized"
      [] pc["init"] \in {"wait", "tx", "io"} /\ req["init"].kind = "sendread" ->
            "ClaimingMastership"
      [] pc["init"] \in {"wait", "tx", "io"} /\ req["init"].kind # "sendread" ->
            "ResettingBus"
      [] pc["init"] = "sleep" -> "ResettingBus"
      [] pc["init"] = "gather" -> "InitializingPeripherals"
      [] pc["init"] = "returned" -> "Ready"
      [] OTHER -> "Failed"

\* C16: M,1 is the first transmission and is transmitted once; the flag is
\* set only after m,ACK; R,RESET is transmitted only with bus_reset, only
\* with the flag set, as the second transmission, and is on the channel when
\* a peripheral's initialize exists; the states are gone through forwards,
\* ResettingBus being entered exactly when bus_reset is true.
C16_Order ==
    /\ [](/\ sent # <<>> => sent[1] = to_ascii(M1)
          /\ \A i \in 1..Len(sent) :
                /\ sent[i] = to_ascii(M1) => i = 1
                /\ sent[i] = to_ascii(RRESET) => (i = 2 /\ bus_reset /\ initialized)
          /\ initialized => (hsAnswer = MACK /\ sent # <<>>)
          /\ (bus_reset /\ \E c \in ChildrenOf("init") : pc[c] # "off") =>
                (Len(sent) >= 2 /\ sent[2] = to_ascii(RRESET))
          /\ MasterState = "ResettingBus" => bus_reset)
    /\ [][\/ MasterState' = MasterState
          \/ MasterState = "Uninitialized" /\ MasterState' = "ClaimingMastership"
          \/ /\ MasterState = "ClaimingMastership"
             /\ MasterState' = IF bus_reset THEN "ResettingBus"
                                            ELSE "InitializingPeripherals"
          \/ MasterState = "ResettingBus" /\ MasterState' = "InitializingPeripherals"
          \/ MasterState = "InitializingPeripherals" /\ MasterState' = "Ready"
          \/ /\ MasterState \in {"ClaimingMastership", "ResettingBus",
                                 "InitializingPeripherals"}
             /\ MasterState' = "Failed"
         ]_vars

\* after M,1 and R,RESET a peripheral's initialize is inside an exchange
C16_Witness ==
    /\ bus_reset /\ Len(sent) = 3
    /\ sent[1] = to_ascii(M1) /\ sent[2] = to_ascii(RRESET)
    /\ \E c \in ChildrenOf("init") : pc[c] = "io"

\* the steps that the event loop and the adapter take on their own: a woken
\* waiter resumes, a lock holder calls the adapter, an adapter call ends
Progress ==
    \/ \E t \in Tasks : LockResume(t)
    \/ \E t \in Tasks : Transmit(t)
    \/ \E t \in Tasks : ExchangeComplete(t)
    \/ HandshakeComplete
    \/ ResetComplete

\* every adapter call ends and every task that can run is run
LiveSpec == Spec /\ WF_vars(Progress)

InExchange(t) == pc[t] \in {"wait", "tx", "io"}

\* C17: with the flag set, a task that has entered send / sendread leaves it
\* (it got the lock and its adapter call ended): as the flag is never unset,
\* that is "always eventually the task is not inside send / sendread with the
\* flag set"; the waiters of the lock leave the queue from its head and enter
\* it at its tail.
C17_Served ==
    /\ \A t \in Tasks : []<>~(initialized /\ InExchange(t))
    /\ [][/\ \A t \in Tasks :
                (pc[t] = "wait" /\ pc'[t] # "wait") =>
                    /\ waiters # <<>> /\ t = Head(waiters)
                    /\ waiters' = Tail(waiters) /\ pc'[t] = "tx"
          /\ waiters' # waiters =>
                \/ waiters # <<>> /\ waiters' = Tail(waiters)
                \/ \E t \in Tasks :
                      /\ waiters' = Append(waiters, t)
                      /\ pc[t] # "wait" /\ pc'[t] = "wait"
         ]_vars

\* two tasks wait for the lock, which has just been released
C17_Witness == initialized /\ Len(waiters) = 2 /\ ~locked

\* the admitted send / sendread calls that have not yet called the adapter
NotYetSent == {t \in Tasks \ {"init"} : pc[t] \in {"wait", "tx"}}
\* the adapter calls made for send / sendread of the caller and peripherals
CallsSent == Len(sent) - Count(to_ascii(M1), sent) - Count(to_ascii(RRESET), sent)

\* C18: the adapter has been called once for each admitted send / sendread
\* that has got the lock, ended or not, failed or not; M,1 has been
\* transmitted once as soon as initialize has called the adapter, and never
\* again; R,RESET at most once.
C18_NoRetry ==
    /\ CallsSent + Cardinality(NotYetSent) = nexch
    /\ Count(to_ascii(M1), sent) <= 1
    /\ (pc["init"] = "new" \/ (MasterState = "ClaimingMastership"
                               /\ pc["init"] \in {"wait", "tx"}))
          <=> Count(to_ascii(M1), sent) = 0
    /\ Count(to_ascii(RRESET), sent) <= 1

\* the caller's one send has failed and the adapter was called once for it
C18_Witness ==
    /\ pc["caller"] = "idle"
    /\ outcome["caller"].kind = "raise" /\ outcome["caller"].err = "ChannelError"
    /\ nexch = 1 /\ CallsSent = 1

\* C19: once initialize has failed after the answer m,ACK the flag is set,
\* and a call that the caller then makes is not refused: it enters send /
\* sendread or dispatches the peripherals' operations.
C19_FlagSurvives ==
    /\ []((pc["init"] = "raised" /\ hsAnswer = MACK) => initialized)
    /\ [][(/\ pc["init"] = "raised" /\ hsAnswer = MACK
           /\ pc["caller"] = "idle"
           /\ (pc'["caller"] # "idle" \/ outcome'["caller"] # outcome["caller"]))
          => (/\ pc'["caller"] \in {"wait", "tx", "gather"}
              /\ outcome'["caller"] # Fault)
         ]_vars

\* initialize has failed by a peripheral's failure, and an operation that
\* the caller dispatched is inside an exchange
C19_Witness ==
    /\ pc["init"] = "raised" /\ hsAnswer = MACK
    /\ outcome["init"].err = "PeripheralError"
    /\ pc["caller"] = "gather"
    /\ \E c \in ChildrenOf("caller") : pc[c] = "io"

\* C20: the step in which run, or initialize's gather, ends by a peripheral's
\* failure leaves the sibling that is still running where it is, with its
\* request, and leaves the lock and its queue as they are.
C20_SiblingNotCancelled ==
    [][\A p \in {"init", "caller"} :
          (pc[p] = "gather" /\ pc'[p] # "gather" /\ fut[p].st = "exception") =>
              /\ \A c \in ChildrenOf(p) :
                    pc[c] \in Running => (pc'[c] = pc[c] /\ req'[c] = req[c])
              /\ locked' = locked /\ waiters' = waiters
      ]_vars

\* run has raised a peripheral's failure and the sibling is inside an
\* exchange
C20_Witness ==
    /\ pc["caller"] = "idle"
    /\ outcome["caller"].kind = "raise" /\ outcome["caller"].err = "PeripheralError"
    /\ \E c \in ChildrenOf("caller") : pc[c] = "io" /\ locked

====
